---- MODULE Spec2Model ----
(***************************************************************************)
(* Model of src/App.tsx: the Form-And-List screen (component App).         *)
(*                                                                         *)
(* The state is the seven useState cells of App plus the activations of    *)
(* its async functions that are suspended at an await.  JavaScript runs    *)
(* one task at a time, so every action below is one run-to-suspension      *)
(* segment of a handler (from its start, or from the await it resumes at,  *)
(* to the next await or to its return), or the settling of a promise by a  *)
(* collaborator.                                                           *)
(*                                                                         *)
(* Optional values (number | null, string | null) are sequences of length  *)
(* at most one: Null is <<>> and Some(v) is <<v>>.                         *)
(***************************************************************************)
EXTENDS Integers, Sequences, FiniteSets

VARIABLES
  title,        \* useState('')                         line 19
  description,  \* useState('')                         line 20
  latitude,     \* useState<number | null>(null)        line 21
  longitude,    \* useState<number | null>(null)        line 22
  photo,        \* useState<string | null>(null)        line 23
  places,       \* useState<Place[]>([])                line 24
  loading,      \* useState(false)                      line 25
  fetchPc,      \* where the single fetchPlaces activation is suspended
  fetchRes,     \* the Response of the GET (res, line 33) while fetchPlaces holds
                \* it, else Null
  locPerm,      \* getLocation activations awaiting the permission (line 43)
  locFix,       \* getLocation activations awaiting the position   (line 49)
  camPerm,      \* takePhoto activations awaiting the permission   (line 55)
  camLaunch,    \* takePhoto activations awaiting the camera       (line 61)
  saves,        \* handleSave activations suspended at an await: where (pc),
                \* the request body sent, the Response once line 86 resolved
  gets,         \* GET requests issued so far
  alert,        \* message of the Alert.alert call of the last step, or NoAlert
  last          \* the segment that ended a handler in the last step, or ""

vars == <<title, description, latitude, longitude, photo, places, loading,
          fetchPc, fetchRes, locPerm, locFix, camPerm, camLaunch, saves,
          gets, alert, last>>

draft == <<title, description, latitude, longitude, photo>>

-----------------------------------------------------------------------------
(* Bounds of the model *)

MaxPlaces == 2
MaxPending == 1

-----------------------------------------------------------------------------
(* Values *)

Null == <<>>
Some(v) == <<v>>

\* what the user can type into a TextInput (onChangeText, lines 165, 177)
Texts == {"", "t"}

\* Location.getCurrentPositionAsync results: location.coords; latitude 0 is
\* a real coordinate (the equator), not the absence of one
Fixes == {[latitude |-> 0, longitude |-> 5]}

\* asset.base64 and asset.uri of a captured image
Base64Data == "QUJD"
AssetUri == "file:///cache/photo.jpg"

\* the assets[0] a launchCameraAsync result can carry
Assets == {[base64 |-> Some(Base64Data), uri |-> Some(AssetUri)],
           [base64 |-> Null, uri |-> Some(AssetUri)],
           [base64 |-> Null, uri |-> Null]}

\* the ImagePickerResult values of launchCameraAsync
CameraResults == {[canceled |-> TRUE, assets |-> <<>>],
                  [canceled |-> FALSE, assets |-> <<>>]}
                 \cup {[canceled |-> FALSE, assets |-> <<a>>] : a \in Assets}

\* type Place, lines 8-16: the records the server holds
Place(id) == [_id |-> id, title |-> "t", description |-> "d",
              latitude |-> 3, longitude |-> 0, photo |-> Null]
Records == {Place("r1"), Place("r2")}

\* the JSON arrays a body of the GET can parse to; places is typed Place[],
\* line 24, and line 35 stores whatever array line 34 parsed
GetBodies == {<<>>, <<Place("r1")>>}

\* the Response of the GET: res.ok, and what res.json() gives (Null: the
\* body is not JSON and res.json() rejects).  Nothing ties the body of a
\* Response to its status.
GetResponses == [ok : BOOLEAN, json : {Null} \cup {Some(b) : b \in GetBodies}]

\* the Response of the POST; the body of a !res.ok Response is only logged
\* (lines 101-102)
PostResponses ==
  [ok : {TRUE}, json : {Null} \cup {Some(r) : r \in Records}]
  \cup {[ok |-> FALSE, json |-> Null]}

\* Alert.alert messages
NoAlert == ""
AlertFetch == "Nao foi possivel carregar os registros"
AlertLocationDenied == "E necessario permitir o acesso a localizacao."
AlertCameraDenied == "E necessario permitir o uso da camera."
AlertValidation == "Preencha titulo, descricao e localizacao."
AlertSaveFailed == "Falha ao salvar o registro."
AlertConnection == "Falha na conexao com o backend."
AlertSuccess == "Registro salvo com sucesso!"

-----------------------------------------------------------------------------
(* Pure helpers *)

\* presses of the location and camera buttons whose handler has not finished
Pending == locPerm + locFix + camPerm + camLaunch

Remove(s, i) == [j \in 1..(Len(s) - 1) |-> IF j < i THEN s[j] ELSE s[j + 1]]

\* Valid with the description test of line 79 left out
Valid_skipsDescription ==
  /\ title # ""
  /\ latitude # Null
  /\ longitude # Null

\* the guard of line 79, negated: !title is true of the empty string only,
\* latitude == null of null only (0 passes)
Valid ==
  /\ title # ""
  /\ description # ""
  /\ latitude # Null
  /\ longitude # Null

\* Body with the two coordinates crossed
Body_crossed ==
  [title |-> title, description |-> description, latitude |-> longitude,
   longitude |-> latitude, photo |-> photo]

\* the object JSON.stringify serialises, lines 91-97
Body ==
  [title |-> title, description |-> description, latitude |-> latitude,
   longitude |-> longitude, photo |-> photo]

\* Prepend with the spread and the new element swapped: [...prev, created]
Prepend_atTail(created, prev) == prev \o <<created>>

\* the updater of line 108: [created, ...prev]
Prepend(created, prev) == <<created>> \o prev

\* PhotoAfter with a cancelled capture clearing the photo
PhotoAfter_cancelClears(result, prev) ==
  IF result.canceled THEN Null
  ELSE IF Len(result.assets) > 0
  THEN LET asset == result.assets[1] IN
       IF asset.base64 # Null
       THEN Some("data:image/jpeg;base64," \o asset.base64[1])
       ELSE IF asset.uri # Null THEN Some(asset.uri[1]) ELSE prev
  ELSE prev

\* lines 67-75: the photo state after a camera result, prev being the photo
\* state before; a branch that calls no setPhoto leaves prev
PhotoAfter(result, prev) ==
  IF ~result.canceled /\ Len(result.assets) > 0
  THEN LET asset == result.assets[1] IN
       IF asset.base64 # Null
       THEN Some("data:image/jpeg;base64," \o asset.base64[1])
       ELSE IF asset.uri # Null THEN Some(asset.uri[1]) ELSE prev
  ELSE prev

-----------------------------------------------------------------------------
(* Initial state: the component as constructed, before its effect has run *)

Init ==
  /\ title = ""
  /\ description = ""
  /\ latitude = Null
  /\ longitude = Null
  /\ photo = Null
  /\ places = <<>>
  /\ loading = FALSE
  /\ fetchPc = "mount"
  /\ fetchRes = Null
  /\ locPerm = 0
  /\ locFix = 0
  /\ camPerm = 0
  /\ camLaunch = 0
  /\ saves = <<>>
  /\ gets = 0
  /\ alert = NoAlert
  /\ last = "init"

-----------------------------------------------------------------------------
(* Text inputs *)

setTitle(v) ==
  /\ title' = v
  /\ alert' = NoAlert
  /\ last' = ""
  /\ UNCHANGED <<description, latitude, longitude, photo, places, loading,
                 fetchPc, fetchRes, locPerm, locFix, camPerm, camLaunch,
                 saves, gets>>

setDescription(v) ==
  /\ description' = v
  /\ alert' = NoAlert
  /\ last' = ""
  /\ UNCHANGED <<title, latitude, longitude, photo, places, loading,
                 fetchPc, fetchRes, locPerm, locFix, camPerm, camLaunch,
                 saves, gets>>

-----------------------------------------------------------------------------
(* useEffect, lines 27-29, and fetchPlaces, lines 31-40 *)

\* the effect runs once after the first render and issues the GET
Mount ==
  /\ fetchPc = "mount"
  /\ fetchPc' = "fetch"
  /\ gets' = gets + 1
  /\ alert' = NoAlert
  /\ last' = ""
  /\ UNCHANGED <<draft, places, loading, fetchRes, locPerm, locFix, camPerm,
                 camLaunch, saves>>

\* line 33 resolves with a Response, whatever its status; res.ok is not
\* looked at and line 34 starts reading the body
fetchPlaces_resolved(res) ==
  /\ fetchPc = "fetch"
  /\ fetchPc' = "json"
  /\ fetchRes' = Some(res)
  /\ alert' = NoAlert
  /\ last' = ""
  /\ UNCHANGED <<draft, places, loading, locPerm, locFix, camPerm, camLaunch,
                 saves, gets>>

\* fetchPlaces_rejected with the catch block calling fetchPlaces again
fetchPlaces_rejected_retries ==
  /\ fetchPc = "fetch"
  /\ fetchPc' = "fetch"
  /\ gets' = gets + 1
  /\ alert' = AlertFetch
  /\ last' = "fetchPlaces_rejected"
  /\ UNCHANGED <<draft, places, loading, fetchRes, locPerm, locFix, camPerm,
                 camLaunch, saves>>

\* line 33 rejects: catch, lines 36-38
fetchPlaces_rejected ==
  /\ fetchPc = "fetch"
  /\ fetchPc' = "done"
  /\ alert' = AlertFetch
  /\ last' = "fetchPlaces_rejected"
  /\ UNCHANGED <<draft, places, loading, fetchRes, locPerm, locFix, camPerm,
                 camLaunch, saves, gets>>

\* line 34 resolves with the parsed body: setPlaces(data), line 35
fetchPlaces_data ==
  /\ fetchPc = "json"
  /\ fetchRes[1].json # Null
  /\ fetchPc' = "done"
  /\ places' = fetchRes[1].json[1]
  /\ fetchRes' = Null
  /\ alert' = NoAlert
  /\ last' = "fetchPlaces_data"
  /\ UNCHANGED <<draft, loading, locPerm, locFix, camPerm,
                 camLaunch, saves, gets>>

\* line 34 rejects (the body is not JSON): catch, lines 36-38
fetchPlaces_jsonThrows ==
  /\ fetchPc = "json"
  /\ fetchRes[1].json = Null
  /\ fetchPc' = "done"
  /\ fetchRes' = Null
  /\ alert' = AlertFetch
  /\ last' = "fetchPlaces_jsonThrows"
  /\ UNCHANGED <<draft, places, loading, locPerm, locFix, camPerm,
                 camLaunch, saves, gets>>

-----------------------------------------------------------------------------
(* getLocation, lines 42-52; its button is never disabled (line 186) *)

getLocation ==
  /\ Pending < MaxPending
  /\ locPerm' = locPerm + 1
  /\ alert' = NoAlert
  /\ last' = ""
  /\ UNCHANGED <<draft, places, loading, fetchPc, fetchRes, locFix, camPerm,
                 camLaunch, saves, gets>>

\* getLocation_denied with the coordinates set to a default of 0, 0
getLocation_denied_defaults ==
  /\ locPerm > 0
  /\ locPerm' = locPerm - 1
  /\ latitude' = Some(0)
  /\ longitude' = Some(0)
  /\ alert' = AlertLocationDenied
  /\ last' = "getLocation_denied"
  /\ UNCHANGED <<title, description, photo, places, loading, fetchPc,
                 fetchRes, locFix, camPerm, camLaunch, saves, gets>>

\* getLocation_denied with the coordinates cleared before the return
getLocation_denied_clears ==
  /\ locPerm > 0
  /\ locPerm' = locPerm - 1
  /\ latitude' = Null
  /\ longitude' = Null
  /\ alert' = AlertLocationDenied
  /\ last' = "getLocation_denied"
  /\ UNCHANGED <<title, description, photo, places, loading, fetchPc,
                 fetchRes, locFix, camPerm, camLaunch, saves, gets>>

\* status !== 'granted', lines 44-47
getLocation_denied ==
  /\ locPerm > 0
  /\ locPerm' = locPerm - 1
  /\ alert' = AlertLocationDenied
  /\ last' = "getLocation_denied"
  /\ UNCHANGED <<draft, places, loading, fetchPc, fetchRes, locFix, camPerm,
                 camLaunch, saves, gets>>

\* status === 'granted': line 49 requests the position
getLocation_granted ==
  /\ locPerm > 0
  /\ locPerm' = locPerm - 1
  /\ locFix' = locFix + 1
  /\ alert' = NoAlert
  /\ last' = ""
  /\ UNCHANGED <<draft, places, loading, fetchPc, fetchRes, camPerm,
                 camLaunch, saves, gets>>

\* getLocation_position with the two coordinates crossed
getLocation_position_crossed(location) ==
  /\ locFix > 0
  /\ locFix' = locFix - 1
  /\ latitude' = Some(location.longitude)
  /\ longitude' = Some(location.latitude)
  /\ alert' = NoAlert
  /\ last' = "getLocation_position"
  /\ UNCHANGED <<title, description, photo, places, loading, fetchPc,
                 fetchRes, locPerm, camPerm, camLaunch, saves, gets>>

\* getLocation_position with line 51 left out
getLocation_position_latitudeOnly(location) ==
  /\ locFix > 0
  /\ locFix' = locFix - 1
  /\ latitude' = Some(location.latitude)
  /\ alert' = NoAlert
  /\ last' = "getLocation_position"
  /\ UNCHANGED <<title, description, longitude, photo, places, loading,
                 fetchPc, fetchRes, locPerm, camPerm, camLaunch, saves, gets>>

\* line 49 resolves: lines 50-51
getLocation_position(location) ==
  /\ locFix > 0
  /\ locFix' = locFix - 1
  /\ latitude' = Some(location.latitude)
  /\ longitude' = Some(location.longitude)
  /\ alert' = NoAlert
  /\ last' = "getLocation_position"
  /\ UNCHANGED <<title, description, photo, places, loading, fetchPc,
                 fetchRes, locPerm, camPerm, camLaunch, saves, gets>>

\* line 49 rejects (no provider, timeout): the rejection is not caught
getLocation_positionThrows ==
  /\ locFix > 0
  /\ locFix' = locFix - 1
  /\ alert' = NoAlert
  /\ last' = "getLocation_positionThrows"
  /\ UNCHANGED <<draft, places, loading, fetchPc, fetchRes, locPerm, camPerm,
                 camLaunch, saves, gets>>

-----------------------------------------------------------------------------
(* takePhoto, lines 54-76; its button is never disabled (line 197) *)

takePhoto ==
  /\ Pending < MaxPending
  /\ camPerm' = camPerm + 1
  /\ alert' = NoAlert
  /\ last' = ""
  /\ UNCHANGED <<draft, places, loading, fetchPc, fetchRes, locPerm, locFix,
                 camLaunch, saves, gets>>

\* status !== 'granted', lines 56-59
takePhoto_denied ==
  /\ camPerm > 0
  /\ camPerm' = camPerm - 1
  /\ alert' = AlertCameraDenied
  /\ last' = "takePhoto_denied"
  /\ UNCHANGED <<draft, places, loading, fetchPc, fetchRes, locPerm, locFix,
                 camLaunch, saves, gets>>

\* status === 'granted': line 61 launches the camera
takePhoto_granted ==
  /\ camPerm > 0
  /\ camPerm' = camPerm - 1
  /\ camLaunch' = camLaunch + 1
  /\ alert' = NoAlert
  /\ last' = ""
  /\ UNCHANGED <<draft, places, loading, fetchPc, fetchRes, locPerm, locFix,
                 saves, gets>>

\* line 61 resolves: lines 67-75
takePhoto_result(result) ==
  /\ camLaunch > 0
  /\ camLaunch' = camLaunch - 1
  /\ photo' = PhotoAfter(result, photo)
  /\ alert' = NoAlert
  /\ last' = IF result.canceled THEN "takePhoto_canceled"
             ELSE "takePhoto_result"
  /\ UNCHANGED <<title, description, latitude, longitude, places, loading,
                 fetchPc, fetchRes, locPerm, locFix, camPerm, saves, gets>>

-----------------------------------------------------------------------------
(* handleSave, lines 78-121 *)

\* CanPress without the disabled prop
CanPress_always == TRUE

\* the submit control takes a press only while disabled={loading} is false,
\* line 206; a press is dispatched after the render that follows the state
\* updates of the previous event, so it sees the loading set by line 85 and
\* handleSave reads the Draft as it is at the press
CanPress == loading = FALSE

\* lines 79-82: a required field is missing
handleSave_invalid ==
  /\ CanPress
  /\ ~Valid
  /\ alert' = AlertValidation
  /\ last' = "handleSave_invalid"
  /\ UNCHANGED <<draft, places, loading, fetchPc, fetchRes, locPerm, locFix,
                 camPerm, camLaunch, saves, gets>>

\* lines 84-98: setLoading(true) and the POST of the serialised Draft
handleSave_post ==
  /\ CanPress
  /\ Valid
  /\ Len(places) + Len(saves) < MaxPlaces
  /\ loading' = TRUE
  /\ saves' = Append(saves, [pc |-> "fetch", body |-> Body, res |-> Null])
  /\ alert' = NoAlert
  /\ last' = ""
  /\ UNCHANGED <<draft, places, fetchPc, fetchRes, locPerm, locFix, camPerm,
                 camLaunch, gets>>

\* handleSave_rejected with the alert of line 103 in the catch block
handleSave_rejected_generic(i) ==
  /\ i \in 1..Len(saves)
  /\ saves[i].pc = "fetch"
  /\ saves' = Remove(saves, i)
  /\ loading' = FALSE
  /\ alert' = AlertSaveFailed
  /\ last' = "handleSave_rejected"
  /\ UNCHANGED <<draft, places, fetchPc, fetchRes, locPerm, locFix, camPerm,
                 camLaunch, gets>>

\* line 86 rejects (the network call itself fails): catch, lines 115-117, and
\* finally, line 119
handleSave_rejected(i) ==
  /\ i \in 1..Len(saves)
  /\ saves[i].pc = "fetch"
  /\ saves' = Remove(saves, i)
  /\ loading' = FALSE
  /\ alert' = AlertConnection
  /\ last' = "handleSave_rejected"
  /\ UNCHANGED <<draft, places, fetchPc, fetchRes, locPerm, locFix, camPerm,
                 camLaunch, gets>>

\* line 86 resolves with a Response that has !res.ok, lines 100-101: the error
\* body is read, a failure of that read is swallowed by .catch(() => ({}))
handleSave_notOk(i, res) ==
  /\ i \in 1..Len(saves)
  /\ saves[i].pc = "fetch"
  /\ ~res.ok
  /\ saves' = [saves EXCEPT ![i].pc = "errorData", ![i].res = Some(res)]
  /\ alert' = NoAlert
  /\ last' = ""
  /\ UNCHANGED <<draft, places, loading, fetchPc, fetchRes, locPerm, locFix,
                 camPerm, camLaunch, gets>>

\* handleSave_errorData with the form cleared as on success
handleSave_errorData_clears(i) ==
  /\ i \in 1..Len(saves)
  /\ saves[i].pc = "errorData"
  /\ saves' = Remove(saves, i)
  /\ title' = ""
  /\ description' = ""
  /\ latitude' = Null
  /\ longitude' = Null
  /\ photo' = Null
  /\ loading' = FALSE
  /\ alert' = AlertSaveFailed
  /\ last' = "handleSave_errorData"
  /\ UNCHANGED <<places, fetchPc, fetchRes, locPerm, locFix, camPerm,
                 camLaunch, gets>>

\* lines 102-104, then finally, line 119
handleSave_errorData(i) ==
  /\ i \in 1..Len(saves)
  /\ saves[i].pc = "errorData"
  /\ saves' = Remove(saves, i)
  /\ loading' = FALSE
  /\ alert' = AlertSaveFailed
  /\ last' = "handleSave_errorData"
  /\ UNCHANGED <<draft, places, fetchPc, fetchRes, locPerm, locFix, camPerm,
                 camLaunch, gets>>

\* line 86 resolves with a Response that has res.ok: line 107 starts reading
\* the body
handleSave_ok(i, res) ==
  /\ i \in 1..Len(saves)
  /\ saves[i].pc = "fetch"
  /\ res.ok
  /\ saves' = [saves EXCEPT ![i].pc = "json", ![i].res = Some(res)]
  /\ alert' = NoAlert
  /\ last' = ""
  /\ UNCHANGED <<draft, places, loading, fetchPc, fetchRes, locPerm, locFix,
                 camPerm, camLaunch, gets>>

\* handleSave_created with line 114 left out
handleSave_created_silent(i) ==
  /\ i \in 1..Len(saves)
  /\ saves[i].pc = "json"
  /\ saves[i].res[1].json # Null
  /\ places' = <<saves[i].res[1].json[1]>> \o places
  /\ title' = ""
  /\ description' = ""
  /\ latitude' = Null
  /\ longitude' = Null
  /\ photo' = Null
  /\ saves' = Remove(saves, i)
  /\ loading' = FALSE
  /\ alert' = NoAlert
  /\ last' = "handleSave_created"
  /\ UNCHANGED <<fetchPc, fetchRes, locPerm, locFix, camPerm, camLaunch,
                 gets>>

\* line 107 resolves with the created Record: lines 108-114, then finally
handleSave_created(i) ==
  /\ i \in 1..Len(saves)
  /\ saves[i].pc = "json"
  /\ saves[i].res[1].json # Null
  /\ places' = Prepend(saves[i].res[1].json[1], places)
  /\ title' = ""
  /\ description' = ""
  /\ latitude' = Null
  /\ longitude' = Null
  /\ photo' = Null
  /\ saves' = Remove(saves, i)
  /\ loading' = FALSE
  /\ alert' = AlertSuccess
  /\ last' = "handleSave_created"
  /\ UNCHANGED <<fetchPc, fetchRes, locPerm, locFix, camPerm, camLaunch,
                 gets>>

\* handleSave_jsonThrows with setLoading(false) at the end of the try block
\* instead of in a finally block
handleSave_jsonThrows_noFinally(i) ==
  /\ i \in 1..Len(saves)
  /\ saves[i].pc = "json"
  /\ saves[i].res[1].json = Null
  /\ saves' = Remove(saves, i)
  /\ alert' = AlertConnection
  /\ last' = "handleSave_jsonThrows"
  /\ UNCHANGED <<draft, places, loading, fetchPc, fetchRes, locPerm, locFix,
                 camPerm, camLaunch, gets>>

\* line 107 rejects (the body is not JSON): catch, lines 115-117, finally
handleSave_jsonThrows(i) ==
  /\ i \in 1..Len(saves)
  /\ saves[i].pc = "json"
  /\ saves[i].res[1].json = Null
  /\ saves' = Remove(saves, i)
  /\ loading' = FALSE
  /\ alert' = AlertConnection
  /\ last' = "handleSave_jsonThrows"
  /\ UNCHANGED <<draft, places, fetchPc, fetchRes, locPerm, locFix, camPerm,
                 camLaunch, gets>>

-----------------------------------------------------------------------------
(* Specification *)

Next ==
  \/ \E v \in Texts : setTitle(v)
  \/ \E v \in Texts : setDescription(v)
  \/ Mount
  \/ \E res \in GetResponses : fetchPlaces_resolved(res)
  \/ fetchPlaces_rejected
  \/ fetchPlaces_data
  \/ fetchPlaces_jsonThrows
  \/ getLocation
  \/ getLocation_denied
  \/ getLocation_granted
  \/ \E location \in Fixes : getLocation_position(location)
  \/ getLocation_positionThrows
  \/ takePhoto
  \/ takePhoto_denied
  \/ takePhoto_granted
  \/ \E result \in CameraResults : takePhoto_result(result)
  \/ handleSave_invalid
  \/ handleSave_post
  \/ \E i \in 1..Len(saves) : handleSave_rejected(i)
  \/ \E i \in 1..Len(saves), res \in PostResponses : handleSave_notOk(i, res)
  \/ \E i \in 1..Len(saves), res \in PostResponses : handleSave_ok(i, res)
  \/ \E i \in 1..Len(saves) : handleSave_errorData(i)
  \/ \E i \in 1..Len(saves) : handleSave_created(i)
  \/ \E i \in 1..Len(saves) : handleSave_jsonThrows(i)

\* the segments of handleSave that resume it once the body of the Response,
\* which has arrived, is read (lines 101, 107)
BodyRead ==
  \E i \in 1..Len(saves) :
    \/ handleSave_errorData(i)
    \/ handleSave_created(i)
    \/ handleSave_jsonThrows(i)

Spec == Init /\ [][Next]_vars

\* the network is under no obligation to settle a request (there is no
\* timeout), but once the Response is there reading its body ends, and the
\* JavaScript job queue runs the continuation
FairSpec == Spec /\ WF_vars(BodyRead)

-----------------------------------------------------------------------------
(* Properties *)

EmptyDraft == <<"", "", Null, Null, Null>>

\* a required field of the Draft is missing
FieldMissing ==
  title = "" \/ description = "" \/ latitude = Null \/ longitude = Null

\* POST requests in flight: activations of handleSave suspended at line 86
InFlight == {i \in 1..Len(saves) : saves[i].pc = "fetch"}

\* C1: a press of the submit control while title or description is empty or
\* latitude or longitude is null can be taken whenever the control is enabled,
\* and it shows the validation alert and changes neither the busy flag, nor
\* the Draft, nor the list; from a state with a missing field no step issues
\* a POST.
C1_InvalidSubmitOnlyAlerts ==
  /\ []((FieldMissing /\ loading = FALSE) => ENABLED handleSave_invalid)
  /\ [][FieldMissing =>
          /\ Len(saves') <= Len(saves)
          /\ (last' = "handleSave_invalid" =>
                /\ alert' = AlertValidation
                /\ UNCHANGED <<draft, places, loading, saves>>)]_vars

\* a Submit has just been refused for the missing coordinates alone
C1_Witness ==
  /\ last = "handleSave_invalid"
  /\ alert = AlertValidation
  /\ title # ""
  /\ description # ""
  /\ latitude = Null

\* C2: the step that completes a Submit whose POST returned a success status
\* with a Record body leaves the list equal to that Record followed by the
\* list as it was just before, and the Draft empty, whatever the Draft held.
C2_SuccessPrependsAndResets ==
  [][\A i \in 1..Len(saves) :
       (/\ saves[i].pc = "json"
        /\ saves[i].res[1].json # Null
        /\ saves' = Remove(saves, i))
       => /\ places' = <<saves[i].res[1].json[1]>> \o places
          /\ draft' = EmptyDraft]_vars

\* a Submit has just succeeded on a list that already held a Record
C2_Witness ==
  /\ last = "handleSave_created"
  /\ Len(places) = 2
  /\ places[1] # places[2]
  /\ draft = EmptyDraft

\* C3: handling a non-success response of the POST (the step that receives
\* it and the step that ends the Submit) changes neither the Draft nor the
\* list; the busy flag is untouched by the first step and false after the
\* second, which shows the generic failure alert.
C3_NotOkChangesOnlyBusy ==
  [][\A i \in 1..Len(saves) :
       /\ (saves[i].pc = "fetch" /\ Len(saves') = Len(saves)
           /\ saves'[i].pc = "errorData")
          => UNCHANGED <<draft, places, loading>>
       /\ (saves[i].pc = "errorData" /\ saves' = Remove(saves, i))
          => /\ UNCHANGED <<draft, places>>
             /\ loading' = FALSE
             /\ alert' = AlertSaveFailed]_vars

\* a Submit has just failed with a non-success response, the Draft intact
C3_Witness ==
  /\ last = "handleSave_errorData"
  /\ alert = AlertSaveFailed
  /\ loading = FALSE
  /\ ~FieldMissing

\* C4: the busy flag is true as long as a validated Submit has not ended,
\* every step that ends one leaves it false, and once the POST has resolved
\* the screen eventually is idle again.
C4_BusyUntilHandled ==
  /\ [](Len(saves) > 0 => loading = TRUE)
  /\ [][Len(saves') < Len(saves) => loading' = FALSE]_vars
  /\ ((\E i \in 1..Len(saves) : saves[i].pc \in {"json", "errorData"})
        ~> (loading = FALSE /\ saves = <<>>))

\* a Submit has just ended in the catch block and the screen is idle
C4_Witness ==
  /\ last \in {"handleSave_jsonThrows", "handleSave_rejected"}
  /\ loading = FALSE
  /\ saves = <<>>

\* C5: at most one POST request is in flight.
C5_AtMostOnePostInFlight == Cardinality(InFlight) <= 1

\* a second Submit has its POST in flight, after the first one has ended
C5_Witness ==
  /\ Cardinality(InFlight) = 1
  /\ Len(places) = 1
  /\ fetchPc = "fetch"

\* C6: the step in which the POST call itself fails shows the
\* connection-failure alert, which is not the generic failure alert, and
\* changes neither the Draft nor the list.
C6_RejectionShowsConnectionAlert ==
  [][\A i \in 1..Len(saves) :
       (saves[i].pc = "fetch" /\ saves' = Remove(saves, i))
       => /\ alert' = AlertConnection
          /\ alert' # AlertSaveFailed
          /\ UNCHANGED <<draft, places>>]_vars

\* the POST call of a Submit has just failed, the Draft intact
C6_Witness ==
  /\ last = "handleSave_rejected"
  /\ alert = AlertConnection
  /\ ~FieldMissing

\* C7: a GET that fails, by rejecting or by resolving with a non-success
\* response, ends fetchPlaces with the alert shown and the list as it was,
\* the empty list.
C7_FetchFailureAlertsAndKeepsList ==
  [][(/\ fetchPc' = "done"
      /\ \/ fetchPc = "fetch"
         \/ fetchPc = "json" /\ ~fetchRes[1].ok)
     => /\ alert' = AlertFetch
        /\ places' = places
        /\ places' = <<>>]_vars

\* C8 as stated: the step in which the location permission is found denied
\* shows the alert, requests no position, leaves latitude and longitude null
\* and alters neither title, description, photo, the list nor the busy flag.
C8_DenialLeavesCoordinatesNull ==
  [][last' = "getLocation_denied" /\ locPerm' < locPerm =>
       /\ alert' = AlertLocationDenied
       /\ locFix' = locFix
       /\ latitude' = Null
       /\ longitude' = Null
       /\ UNCHANGED <<title, description, photo, places, loading>>]_vars

\* C8, amended: the step in which the location permission is found denied
\* shows the alert, requests no position and leaves latitude and longitude,
\* like title, description, photo, the list and the busy flag, as they were:
\* null if no position had been stored, the stored position otherwise.
C8_DenialLeavesStateUnchanged ==
  [][last' = "getLocation_denied" /\ locPerm' < locPerm =>
       /\ alert' = AlertLocationDenied
       /\ locFix' = locFix
       /\ UNCHANGED <<draft, places, loading>>]_vars

\* the permission has just been denied while a position is stored
C8_Witness ==
  /\ last = "getLocation_denied"
  /\ alert = AlertLocationDenied
  /\ latitude # Null
  /\ longitude # Null

\* C9: the step in which the camera permission is found denied, and the step
\* in which the capture comes back cancelled, leave the photo and every
\* other field of the Draft as they were; the denial launches no camera.
C9_DeniedOrCancelledKeepsPhoto ==
  [][/\ (last' = "takePhoto_denied" /\ camPerm' < camPerm)
        => UNCHANGED draft /\ camLaunch' = camLaunch
     /\ (last' = "takePhoto_canceled" /\ camLaunch' < camLaunch)
        => UNCHANGED draft]_vars

\* a capture has just been cancelled while a photo is held
C9_Witness ==
  /\ last = "takePhoto_canceled"
  /\ photo # Null

\* C10: no step removes, modifies or reorders a Record of the list: the list
\* before a step is a suffix of the list after it.
C10_ListOnlyGrowsAtHead ==
  [][/\ Len(places') >= Len(places)
     /\ SubSeq(places', Len(places') - Len(places) + 1, Len(places')) = places
    ]_vars

\* the segments that end an operation in a failure
Failures ==
  {"fetchPlaces_rejected", "fetchPlaces_jsonThrows", "getLocation_denied",
   "getLocation_positionThrows", "takePhoto_denied", "handleSave_invalid",
   "handleSave_errorData", "handleSave_rejected", "handleSave_jsonThrows"}

\* C11: one GET is issued, by the mount effect, and no other; a step issues
\* a POST only as a press of the enabled submit control on a Draft that
\* passes validation, and then exactly one; a step that ends an operation in
\* a failure calls no collaborator (no GET, no POST, no permission request,
\* no position request, no camera launch).
C11_NoAutomaticRetry ==
  /\ [](gets = IF fetchPc = "mount" THEN 0 ELSE 1)
  /\ [][/\ gets' # gets => fetchPc = "mount"
        /\ Len(saves') > Len(saves) =>
             /\ ~FieldMissing
             /\ loading = FALSE
             /\ Len(saves') = Len(saves) + 1
        /\ last' \in Failures =>
             /\ gets' = gets
             /\ Len(saves') <= Len(saves)
             /\ locPerm' <= locPerm
             /\ locFix' <= locFix
             /\ camPerm' <= camPerm
             /\ camLaunch' <= camLaunch]_vars

\* the GET has just been rejected and nothing is pending
C11_Witness ==
  /\ last = "fetchPlaces_rejected"
  /\ gets = 1
  /\ fetchPc = "done"
  /\ saves = <<>>
  /\ Pending = 0

\* C12: the step in which the position arrives stores the latitude and the
\* longitude of that position in the Draft and changes neither title,
\* description, photo, the list nor the busy flag.
C12_PositionStoresCoordinates ==
  [][last' = "getLocation_position" /\ locFix' < locFix =>
       /\ \E location \in Fixes :
            /\ latitude' = Some(location.latitude)
            /\ longitude' = Some(location.longitude)
       /\ UNCHANGED <<title, description, photo, places, loading>>]_vars

\* a position has just been stored next to a typed title and a photo
C12_Witness ==
  /\ last = "getLocation_position"
  /\ latitude = Some(0)
  /\ longitude = Some(5)
  /\ title # ""
  /\ photo # Null

\* C13: latitude and longitude are both null or both not null.
C13_CoordinatesTogether == (latitude = Null) <=> (longitude = Null)

\* the reset of a Submit has just cleared the two coordinates a position
\* had stored
C13_Witness ==
  /\ last = "handleSave_created"
  /\ latitude = Null
  /\ longitude = Null
  /\ Len(places) = 1
  /\ fetchPc = "mount"

\* C14: the body of a POST is the Draft as it is at the press that issues
\* it; it does not change while the Submit is suspended, whatever happens to
\* the Draft; its title and description are not empty and its coordinates
\* not null.
C14_BodyIsDraftAtSubmit ==
  /\ [](\A i \in 1..Len(saves) :
          /\ saves[i].body.title # ""
          /\ saves[i].body.description # ""
          /\ saves[i].body.latitude # Null
          /\ saves[i].body.longitude # Null)
  /\ [][/\ Len(saves') > Len(saves) =>
             saves'[Len(saves')].body =
               [title |-> title, description |-> description,
                latitude |-> latitude, longitude |-> longitude,
                photo |-> photo]
        /\ Len(saves') = Len(saves) =>
             \A i \in 1..Len(saves) : saves'[i].body = saves[i].body]_vars

\* a POST is in flight and the Draft no longer is what was sent
C14_Witness ==
  \E i \in 1..Len(saves) :
    /\ saves[i].pc = "fetch"
    /\ saves[i].body.title # title
    /\ saves[i].body.photo # photo

\* C15: a Submit shows one alert, in the step that ends it and in no step
\* before: the validation alert if a required field is missing, the generic
\* failure alert after a non-success response, the connection-failure alert
\* if the fetch or the reading of the body of a success response throws, the
\* success alert if a Record was read; and the success alert is shown only
\* in a step in which the list grows by one and the Draft is reset.
C15_OneAlertPerSubmit ==
  [][/\ last' = "handleSave_invalid" => alert' = AlertValidation
     /\ Len(saves') > Len(saves) => alert' = NoAlert
     /\ \A i \in 1..Len(saves) :
          /\ (Len(saves') = Len(saves) /\ saves'[i].pc # saves[i].pc)
             => alert' = NoAlert
          /\ saves' = Remove(saves, i) =>
               alert' = CASE saves[i].pc = "errorData" -> AlertSaveFailed
                          [] saves[i].pc = "fetch" -> AlertConnection
                          [] saves[i].pc = "json" /\ saves[i].res[1].json = Null
                               -> AlertConnection
                          [] OTHER -> AlertSuccess
     /\ alert' = AlertSuccess =>
          /\ Len(places') = Len(places) + 1
          /\ draft' = EmptyDraft]_vars

\* a Submit has just shown the success alert on its first Record, the GET
\* having ended
C15_Witness ==
  /\ alert = AlertSuccess
  /\ last = "handleSave_created"
  /\ fetchPc = "done"
  /\ Len(places) = 1

\* a step the user starts: an edit of a text field, or a press of the
\* location, camera or submit control
UserStep ==
  \/ title' # title
  \/ description' # description
  \/ locPerm' > locPerm
  \/ camPerm' > camPerm
  \/ last' = "handleSave_invalid"
  \/ Len(saves') > Len(saves)

\* C16 as stated, for the first step after the reset: right after a
\* successful Submit has reset the Draft, a step the user does not start
\* leaves the Draft empty.
C16_DraftStaysEmptyAfterReset ==
  [][(last = "handleSave_created" /\ draft = EmptyDraft /\ ~UserStep)
     => draft' = EmptyDraft]_vars

\* C16, amended: a successful Submit leaves the Draft empty, and an empty
\* Draft is changed only by an edit of a text field, by a position that
\* arrives or by a capture that comes back, whether the position or the
\* capture was requested before or after the reset.
C16_EmptyDraftChangedOnlyByEditFixOrCapture ==
  [][/\ last' = "handleSave_created" => draft' = EmptyDraft
     /\ (draft = EmptyDraft /\ draft' # EmptyDraft) =>
          \/ title' # title /\ <<description', latitude', longitude', photo'>>
                               = <<description, latitude, longitude, photo>>
          \/ description' # description
               /\ <<title', latitude', longitude', photo'>>
                  = <<title, latitude, longitude, photo>>
          \/ last' = "getLocation_position"
               /\ <<title', description', photo'>> = <<title, description, photo>>
          \/ last' = "takePhoto_result"
               /\ <<title', description', latitude', longitude'>>
                  = <<title, description, latitude, longitude>>]_vars

\* a position requested before the reset has just been written into the
\* Draft the reset had emptied: no edit and no press has followed the Submit
\* that listed the Record
C16_Witness ==
  /\ last = "getLocation_position"
  /\ title = ""
  /\ description = ""
  /\ photo = Null
  /\ latitude # Null
  /\ Len(places) = 1
  /\ fetchPc = "mount"
  /\ Pending = 0

====
